---------------------------- MODULE Spec2Model ----------------------------
(***************************************************************************)
(* The data splitters of numerox/splitter.py as a state machine.           *)
(*                                                                         *)
(* One splitter object is modelled: its class (kind), its parameter bag p, *)
(* the dataset it was built on, the iteration counter and the cached       *)
(* attributes eras and cv.  The two operations are next() and reset().     *)
(* A dataset is a sequence of rows; a Data view of it is the sequence of   *)
(* the positions (1-based, in the full dataset) of the rows it holds.      *)
(***************************************************************************)
EXTENDS Integers, Sequences, FiniteSets, TLC

\* ------------------------------------------------------------------------
\* Bounds of the model
\* ------------------------------------------------------------------------
NRows == 3        \* rows of a dataset
MaxEra == 3       \* era identifiers are 1..MaxEra
MaxSeed == 2      \* seeds are 0..MaxSeed
MaxKfold == 3     \* kfold is drawn from 1..MaxKfold
MaxWindow == 2    \* fit_window, predict_window are drawn from 0..MaxWindow
MaxStep == 1      \* step is drawn from 0..MaxStep
FracBits == 2     \* fit_fraction is drawn from the multiples of 1/2^FracBits
MaxCount == 5     \* a RollSplitter run is followed for MaxCount calls
MaxComputed == 2  \* the computations of the cache in a run are counted up to this

\* np.inf, the max_count of RollSplitter
Inf == -1

\* fit_fraction is held as its numerator over FracDen (a dyadic rational, so
\* that the float arithmetic of the code is exact on it)
FracDen == 2 ^ FracBits

Regions == {"train", "validation", "tournament"}
Labels == {0, 1}
Eras == 1..MaxEra

Tournament == "TournamentSplitter"
Validation == "ValidationSplitter"
Cheat == "CheatSplitter"
Split == "SplitSplitter"
CV == "CVSplitter"
IgnoreEraCV == "IgnoreEraCVSplitter"
Roll == "RollSplitter"

\* Python's None and a set attribute
None == [some |-> FALSE, val |-> <<>>]
Some(v) == [some |-> TRUE, val |-> v]

\* ------------------------------------------------------------------------
\* Sequences and integers
\* ------------------------------------------------------------------------
Min(a, b) == IF a < b THEN a ELSE b
Max(a, b) == IF a > b THEN a ELSE b
Range(s) == {s[i] : i \in 1..Len(s)}

SetMin(S) == CHOOSE x \in S : \A y \in S : x <= y

RECURSIVE SortedSeq(_)
\* the elements of a finite set of integers in ascending order
SortedSeq(S) ==
  IF S = {} THEN <<>> ELSE <<SetMin(S)>> \o SortedSeq(S \ {SetMin(S)})

RemoveAt(s, i) == SubSeq(s, 1, i - 1) \o SubSeq(s, i + 1, Len(s))

RECURSIVE SortInts(_)
\* a sequence of integers in ascending order, duplicates kept
SortInts(s) ==
  IF Len(s) = 0 THEN <<>>
  ELSE LET m == SetMin(Range(s))
           i == CHOOSE j \in 1..Len(s) : s[j] = m
       IN <<m>> \o SortInts(RemoveAt(s, i))

RECURSIVE Fact(_)
Fact(n) == IF n <= 1 THEN 1 ELSE n * Fact(n - 1)

RECURSIVE Permute(_, _)
\* the permutation of s numbered c in the factorial number system
Permute(s, c) ==
  IF Len(s) = 0 THEN <<>>
  ELSE LET f == Fact(Len(s) - 1)
           i == (c \div f) + 1
       IN <<s[i]>> \o Permute(RemoveAt(s, i), c % f)

\* numpy.random.RandomState(seed).shuffle: a permutation fixed by the seed
Shuffle(s, seed) == Permute(s, seed % Fact(Len(s)))

\* Python's int() of the rational num/den (den > 0): truncation toward zero
PyInt(num, den) == IF num >= 0 THEN num \div den ELSE -((-num) \div den)

\* the position Python's slicing turns a bound n into, for a length len
PySliceBound(n, len) == IF n < 0 THEN Max(len + n, 0) ELSE Min(n, len)
\* s[:n] and s[n:]
SliceTo(s, n) == SubSeq(s, 1, PySliceBound(n, Len(s)))
\* s[n-1:], a slice that starts one element early
SliceFromEarly(s, n) == SubSeq(s, PySliceBound(n - 1, Len(s)) + 1, Len(s))
SliceFrom(s, n) == SubSeq(s, PySliceBound(n, Len(s)) + 1, Len(s))

\* ------------------------------------------------------------------------
\* nx.Data: the dataset collaborator
\* ------------------------------------------------------------------------
Row(e, r, y) == [era |-> e, region |-> r, y |-> y]

\* the view holding every row of dataset d
AllRows(d) == [i \in 1..Len(d) |-> i]

\* data.region_isin(regions), data['train']
RegionIsin(d, view, regions) ==
  SelectSeq(view, LAMBDA i : d[i].region \in regions)

\* data.era_isin(eras)
EraIsin(d, view, eraset) ==
  SelectSeq(view, LAMBDA i : d[i].era \in eraset)

\* data.unique_era(): the distinct eras of the view, ascending
UniqueEra(d, view) == SortedSeq({d[view[j]].era : j \in 1..Len(view)})

\* data.y
LabelsOf(d, view) == [j \in 1..Len(view) |-> d[view[j]].y]

\* nx.Data(data.df.take(index)): the rows at the 0-based positions index
Take(view, index) == [j \in 1..Len(index) |-> view[index[j] + 1]]

\* ------------------------------------------------------------------------
\* sklearn's fold generators
\* ------------------------------------------------------------------------
\* a generator object: the test folds it will yield over n samples, how many
\* it has yielded, whether its body raises ValueError when first advanced,
\* and whether it has finished
Generator(n, test, bad) ==
  [n |-> n, test |-> test, pos |-> 0, bad |-> bad, closed |-> FALSE]

\* generator.__next__(): the generator afterwards and what the call gives
GenNext(g) ==
  IF g.closed THEN [gen |-> g, sig |-> "StopIteration"]
  ELSE IF g.bad THEN [gen |-> [g EXCEPT !.closed = TRUE], sig |-> "ValueError"]
  ELSE IF g.pos >= Len(g.test)
       THEN [gen |-> [g EXCEPT !.closed = TRUE], sig |-> "StopIteration"]
  ELSE LET pre == g.test[g.pos + 1]
           fit == SortedSeq((0..(g.n - 1)) \ Range(pre))
       IN [gen |-> [g EXCEPT !.pos = g.pos + 1], sig |-> "yield",
           fit_index |-> fit, pre_index |-> pre]

\* where fold f (1-based) starts among n samples cut into k folds: the folds
\* have n // k samples, the first n % k of them one more
FoldStart(n, k, f) == (f - 1) * (n \div k) + Min(f - 1, n % k)

\* KFold(n_splits=k, random_state=seed, shuffle=True).split(X), len(X) = n
KFoldSplit(k, seed, n) ==
  IF k > n THEN Generator(n, <<>>, TRUE)
  ELSE LET ind == Shuffle([i \in 1..n |-> i - 1], seed)
       IN Generator(n,
            [f \in 1..k |->
               SortedSeq({ind[j] : j \in (FoldStart(n, k, f) + 1)..FoldStart(n, k, f + 1)})],
            FALSE)

RECURSIVE FirstSeen(_)
\* the distinct values of a sequence in the order of their first occurrence
FirstSeen(ys) ==
  IF Len(ys) = 0 THEN <<>>
  ELSE LET r == FirstSeen(SubSeq(ys, 1, Len(ys) - 1))
       IN IF ys[Len(ys)] \in Range(r) THEN r ELSE Append(r, ys[Len(ys)])

\* the positions (1-based) of the sequence ys that hold the value y
Members(ys, y) == SelectSeq([j \in 1..Len(ys) |-> j], LAMBDA j : ys[j] = y)

\* the test fold (0-based) StratifiedKFold gives each sample: the samples
\* sorted by class are dealt to the folds in turn, and within each class the
\* folds so obtained are shuffled over the members of the class
StratifiedTestFolds(k, seed, ys) ==
  LET classes == FirstSeen(ys)
      cnt(c) == Len(Members(ys, classes[c]))
      off(c) == Len(SelectSeq(ys, LAMBDA y : \E b \in 1..(c - 1) : classes[b] = y))
      folds(c) == Shuffle(SortInts([j \in 1..cnt(c) |-> (off(c) + j - 1) % k]),
                          seed + c - 1)
      cls(j) == CHOOSE c \in 1..Len(classes) : classes[c] = ys[j]
      rank(j) == Cardinality({i \in 1..j : ys[i] = ys[j]})
  IN [j \in 1..Len(ys) |-> folds(cls(j))[rank(j)]]

\* StratifiedKFold(n_splits=k, random_state=seed, shuffle=True).split(x, y)
StratifiedKFoldSplit(k, seed, ys) ==
  LET n == Len(ys)
      classes == FirstSeen(ys)
  IN IF k > n \/ \A c \in 1..Len(classes) : k > Len(Members(ys, classes[c]))
     THEN Generator(n, <<>>, TRUE)
     ELSE LET tf == StratifiedTestFolds(k, seed, ys)
          IN Generator(n,
               [f \in 1..k |-> SortedSeq({j - 1 : j \in {i \in 1..n : tf[i] = f - 1}})],
               FALSE)

\* ------------------------------------------------------------------------
\* next_split of each splitter: the attributes it leaves and what it gives
\* ------------------------------------------------------------------------
Raise(e) == [sig |-> e]
Pair(fit, pre) == [sig |-> "pair", fit |-> fit, pre |-> pre]
EraPair(fit, pre, era_fit, era_pre) ==
  [sig |-> "pair", fit |-> fit, pre |-> pre, era_fit |-> era_fit, era_pre |-> era_pre]

\* data['train'] when asked for, else data
TrainOnly(d, train_only) ==
  IF train_only THEN RegionIsin(d, AllRows(d), {"train"}) ELSE AllRows(d)

TournamentSplitter_next_split(d) ==
  Pair(RegionIsin(d, AllRows(d), {"train"}), RegionIsin(d, AllRows(d), {"tournament"}))

\* a validation split whose fit partition keeps the validation rows
ValidationSplitter_next_split_leak(d) ==
  Pair(RegionIsin(d, AllRows(d), {"train", "validation"}),
       RegionIsin(d, AllRows(d), {"validation"}))

ValidationSplitter_next_split(d) ==
  Pair(RegionIsin(d, AllRows(d), {"train"}), RegionIsin(d, AllRows(d), {"validation"}))

\* the split the docstring of CheatSplitter names: train+validation, tournament
CheatSplitter_next_split_docstring(d) ==
  Pair(RegionIsin(d, AllRows(d), {"train", "validation"}),
       RegionIsin(d, AllRows(d), {"tournament"}))

CheatSplitter_next_split(d) ==
  Pair(RegionIsin(d, AllRows(d), {"train", "validation"}),
       RegionIsin(d, AllRows(d), {"validation"}))

\* int(fit_fraction * eras.size), the rounding term left out
NFitTruncated(fit_fraction, size) == PyInt(fit_fraction * size, FracDen)

\* int(fit_fraction * eras.size + 0.5)
NFit(fit_fraction, size) == PyInt(2 * fit_fraction * size + FracDen, 2 * FracDen)

SplitSplitter_next_split(d, p) ==
  LET data == TrainOnly(d, p.train_only)
      eras == Shuffle(UniqueEra(d, data), p.seed)
      nfit == NFit(p.fit_fraction, Len(eras))
      era_fit == SliceTo(eras, nfit)
      era_pre == SliceFrom(eras, nfit)
  IN EraPair(EraIsin(d, data, Range(era_fit)), EraIsin(d, data, Range(era_pre)),
             era_fit, era_pre)

\* the local variable data of the next_split of CVSplitter, IgnoreEraCVSplitter
\* and RollSplitter: narrowed to the train rows in the first call of a run only
LocalData(d, p, count) ==
  IF count = 0 THEN TrainOnly(d, p.train_only) ELSE AllRows(d)

\* recomputing the cached attribute only while it is None
FirstCallUnset(count, cache) == ~cache.some

\* whether next_split recomputes the cached attributes
FirstCall(count, cache) == count = 0

\* a window that starts at (count + 1) * step
FitStartOneBased(count, step) == (count + 1) * step

\* f_idx1, where the fit window of RollSplitter starts
FitStart(count, step) == count * step

\* a predict window that starts on the last position of the fit window
PreStartInclusive(f_idx2) == f_idx2 - 1

\* p_idx1, where the predict window of RollSplitter starts
PreStart(f_idx2) == f_idx2

CVSplitter_next_split(d, p, count, eras, cv) ==
  LET data == LocalData(d, p, count)
      first == FirstCall(count, cv)
      eras1 == IF first THEN Some(UniqueEra(d, data)) ELSE eras
  IN IF first /\ p.kfold < 2
     THEN [eras |-> eras1, cv |-> cv, out |-> Raise("ValueError")]
     ELSE LET cv1 == IF first
                     THEN Some(KFoldSplit(p.kfold, p.seed, Len(eras1.val)))
                     ELSE cv
          IN IF ~cv1.some
             THEN [eras |-> eras1, cv |-> cv1, out |-> Raise("AttributeError")]
             ELSE LET r == GenNext(cv1.val)
                  IN IF r.sig # "yield"
                     THEN [eras |-> eras1, cv |-> Some(r.gen), out |-> Raise(r.sig)]
                     ELSE LET era_fit == [j \in 1..Len(r.fit_index) |->
                                            eras1.val[r.fit_index[j] + 1]]
                              era_predict == [j \in 1..Len(r.pre_index) |->
                                                eras1.val[r.pre_index[j] + 1]]
                          IN [eras |-> eras1, cv |-> Some(r.gen),
                              out |-> EraPair(EraIsin(d, data, Range(era_fit)),
                                              EraIsin(d, data, Range(era_predict)),
                                              era_fit, era_predict)]

IgnoreEraCVSplitter_next_split(d, p, count, eras, cv) ==
  LET data == LocalData(d, p, count)
      first == FirstCall(count, cv)
  IN IF first /\ p.kfold < 2
     THEN [eras |-> eras, cv |-> cv, out |-> Raise("ValueError")]
     ELSE LET cv1 == IF first
                     THEN Some(StratifiedKFoldSplit(p.kfold, p.seed, LabelsOf(d, data)))
                     ELSE cv
          IN IF ~cv1.some
             THEN [eras |-> eras, cv |-> cv1, out |-> Raise("AttributeError")]
             ELSE LET r == GenNext(cv1.val)
                  IN IF r.sig # "yield"
                     THEN [eras |-> eras, cv |-> Some(r.gen), out |-> Raise(r.sig)]
                     ELSE [eras |-> eras, cv |-> Some(r.gen),
                           out |-> Pair(Take(data, r.fit_index), Take(data, r.pre_index))]

RollSplitter_next_split(d, p, count, eras, cv) ==
  LET data == LocalData(d, p, count)
      eras1 == IF FirstCall(count, eras) THEN Some(UniqueEra(d, data)) ELSE eras
      f_idx1 == FitStart(count, p.step)
      f_idx2 == f_idx1 + p.fit_window
      p_idx1 == PreStart(f_idx2)
      p_idx2 == p_idx1 + p.predict_window
      nera == Len(eras1.val)
      InFit(i) == i >= f_idx1 /\ i < f_idx2
      InPre(i) == i >= p_idx1 /\ i < p_idx2
      era_fit == SelectSeq(eras1.val, LAMBDA e : \E i \in 0..(nera - 1) :
                                                   eras1.val[i + 1] = e /\ InFit(i))
      era_pre == SelectSeq(eras1.val, LAMBDA e : \E i \in 0..(nera - 1) :
                                                   eras1.val[i + 1] = e /\ InPre(i))
  IN IF p_idx2 > nera
     THEN [eras |-> eras1, cv |-> cv, out |-> Raise("StopIteration")]
     ELSE IF \E i \in 0..(nera - 1) : InFit(i) /\ InPre(i)
     THEN [eras |-> eras1, cv |-> cv, out |-> Raise("RuntimeError")]
     ELSE [eras |-> eras1, cv |-> cv,
           out |-> EraPair(EraIsin(d, data, Range(era_fit)),
                           EraIsin(d, data, Range(era_pre)), era_fit, era_pre)]

\* self.next_split(), by the class of self
next_split(k, d, p, count, eras, cv) ==
  CASE k = Tournament -> [eras |-> eras, cv |-> cv, out |-> TournamentSplitter_next_split(d)]
    [] k = Validation -> [eras |-> eras, cv |-> cv, out |-> ValidationSplitter_next_split(d)]
    [] k = Cheat -> [eras |-> eras, cv |-> cv, out |-> CheatSplitter_next_split(d)]
    [] k = Split -> [eras |-> eras, cv |-> cv, out |-> SplitSplitter_next_split(d, p)]
    [] k = CV -> CVSplitter_next_split(d, p, count, eras, cv)
    [] k = IgnoreEraCV -> IgnoreEraCVSplitter_next_split(d, p, count, eras, cv)
    [] k = Roll -> RollSplitter_next_split(d, p, count, eras, cv)

\* count >= max_count
ExceedsOrEqual(count, max_count) == max_count # Inf /\ count >= max_count

\* count > max_count, max_count possibly np.inf
Exceeds(count, max_count) == max_count # Inf /\ count > max_count

\* whether next_split assigns a cached attribute: self.eras in CVSplitter and
\* RollSplitter, self.cv in IgnoreEraCVSplitter (once StratifiedKFold is built)
Assigns(k, p, count, eras, cv) ==
  \/ k = CV /\ FirstCall(count, cv)
  \/ k = IgnoreEraCV /\ FirstCall(count, cv) /\ p.kfold >= 2
  \/ k = Roll /\ FirstCall(count, eras)

\* a count that goes up whatever next_split gives
CountAfterAlways(count, sig) == count + 1

\* a count that is rewound when next_split raises
CountAfterRewind(count, sig) == IF sig = "pair" THEN count + 1 ELSE 0

\* self.count after tup = self.next_split(); self.count += 1: the increment
\* is not reached when next_split raises
CountAfter(count, sig) == IF sig = "pair" THEN count + 1 ELSE count

\* Splitter.next() on the object s: the object afterwards, what the call
\* gives, and whether it assigned a cached attribute
SplitterNext(s) ==
  IF Exceeds(s.count, s.max_count)
  THEN [obj |-> s, out |-> Raise("StopIteration"), assigned |-> FALSE]
  ELSE LET r == next_split(s.kind, s.data, s.p, s.count, s.eras, s.cv)
       IN [obj |-> [s EXCEPT !.eras = r.eras, !.cv = r.cv,
                             !.count = CountAfter(@, r.out.sig)],
           out |-> r.out,
           assigned |-> Assigns(s.kind, s.p, s.count, s.eras, s.cv)]

\* a reset that also drops the cached attributes
SplitterResetClearing(s) == [s EXCEPT !.count = 0, !.eras = None, !.cv = None]

\* Splitter.reset()
SplitterReset(s) == [s EXCEPT !.count = 0]

\* the constructors: the object each leaves
NoParams == <<>>

Splitter_init(k, d) ==
  [kind |-> k, data |-> d, p |-> NoParams, max_count |-> 0, count |-> 0,
   eras |-> None, cv |-> None]

SplitSplitter_init(d, fit_fraction, seed, train_only) ==
  [kind |-> Split, data |-> d,
   p |-> [fit_fraction |-> fit_fraction, seed |-> seed, train_only |-> train_only],
   max_count |-> 0, count |-> 0, eras |-> None, cv |-> None]

\* a CVSplitter whose max_count is two short of kfold
CVSplitter_init_short(d, kfold, seed, train_only) ==
  [kind |-> CV, data |-> d,
   p |-> [kfold |-> kfold, seed |-> seed, train_only |-> train_only],
   max_count |-> kfold - 2, count |-> 0, eras |-> None, cv |-> None]

CVSplitter_init(d, kfold, seed, train_only) ==
  [kind |-> CV, data |-> d,
   p |-> [kfold |-> kfold, seed |-> seed, train_only |-> train_only],
   max_count |-> kfold, count |-> 0, eras |-> None, cv |-> None]

IgnoreEraCVSplitter_init(d, kfold, seed, train_only) ==
  [kind |-> IgnoreEraCV, data |-> d,
   p |-> [kfold |-> kfold, seed |-> seed, train_only |-> train_only],
   max_count |-> kfold, count |-> 0, eras |-> None, cv |-> None]

RollSplitter_init(d, fit_window, predict_window, step, train_only) ==
  [kind |-> Roll, data |-> d,
   p |-> [fit_window |-> fit_window, predict_window |-> predict_window,
          step |-> step, train_only |-> train_only],
   max_count |-> Inf, count |-> 0, eras |-> None, cv |-> None]

\* ------------------------------------------------------------------------
\* The datasets and the splitters the model is run on
\* ------------------------------------------------------------------------
RegionCode(r) == CASE r = "train" -> 0 [] r = "validation" -> 1 [] r = "tournament" -> 2
RowCode(row) == (row.era * 3 + RegionCode(row.region)) * 2 + row.y
Ordered(d) == \A i \in 1..(Len(d) - 1) : RowCode(d[i]) <= RowCode(d[i + 1])

\* The splitters that select by region and by era never read the labels nor
\* the order of the rows: they are run on the datasets of NRows rows with a
\* single label, one dataset for each multiset of rows.
RegionData ==
  {d \in [1..NRows -> {Row(e, r, 0) : e \in Eras, r \in Regions}] : Ordered(d)}

\* SplitSplitter, CVSplitter and RollSplitter only tell the train region
\* from the others.
EraData ==
  {d \in [1..NRows -> {Row(e, r, 0) : e \in Eras, r \in {"train", "validation"}}] :
     Ordered(d)}

\* IgnoreEraCVSplitter reads the labels and the positions of the rows, never
\* the eras: it is run on every sequence of NRows rows of a single era.
LabelData ==
  [1..NRows -> {Row(1, r, y) : r \in {"train", "validation"}, y \in Labels}]

Seeds == 0..MaxSeed
Kfolds == 1..MaxKfold
Windows == 0..MaxWindow
Steps == 0..MaxStep
Fractions == (-1)..(FracDen + 1)
\* windows and steps of either sign, for RollSplitter alone
SignedWindows == (-1)..MaxWindow
SignedSteps == (-1)..MaxStep

\* ------------------------------------------------------------------------
\* The state machine
\* ------------------------------------------------------------------------
VARIABLES
  kind,       \* the class of the splitter
  data,       \* self.data, self.p['data']: the dataset, never reassigned
  p,          \* self.p without 'data'
  max_count,  \* self.max_count
  count,      \* self.count
  eras,       \* self.eras
  cv,         \* self.cv
  signal,     \* what the last next() gave: "pair" or the exception raised;
              \* "none" after construction and after reset()
  run,        \* the pairs returned since construction or the last reset()
  computed    \* how many calls of next() since construction or the last
              \* reset() assigned a cached attribute, up to MaxComputed

vars == <<kind, data, p, max_count, count, eras, cv, signal, run, computed>>

Self ==
  [kind |-> kind, data |-> data, p |-> p, max_count |-> max_count,
   count |-> count, eras |-> eras, cv |-> cv]

\* the state of the freshly constructed object s
Built(s) ==
  /\ kind = s.kind
  /\ data = s.data
  /\ p = s.p
  /\ max_count = s.max_count
  /\ count = s.count
  /\ eras = s.eras
  /\ cv = s.cv
  /\ signal = "none"
  /\ run = <<>>
  /\ computed = 0

Init ==
  \/ \E k \in {Tournament, Validation, Cheat}, d \in RegionData :
       Built(Splitter_init(k, d))
  \/ \E d \in EraData, f \in Fractions, sd \in Seeds, t \in BOOLEAN :
       Built(SplitSplitter_init(d, f, sd, t))
  \/ \E d \in EraData, kf \in Kfolds, sd \in Seeds, t \in BOOLEAN :
       Built(CVSplitter_init(d, kf, sd, t))
  \/ \E d \in LabelData, kf \in Kfolds, sd \in Seeds, t \in BOOLEAN :
       Built(IgnoreEraCVSplitter_init(d, kf, sd, t))
  \/ \E d \in EraData, fw \in Windows, pw \in Windows, st \in Steps, t \in BOOLEAN :
       Built(RollSplitter_init(d, fw, pw, st, t))

\* next(self); a run of a splitter with max_count = np.inf is followed for
\* MaxCount calls
next ==
  /\ max_count = Inf => count < MaxCount
  /\ LET r == SplitterNext(Self)
     IN /\ count' = r.obj.count
        /\ eras' = r.obj.eras
        /\ cv' = r.obj.cv
        /\ signal' = r.out.sig
        /\ run' = IF r.out.sig = "pair" THEN Append(run, r.out) ELSE run
        /\ computed' = IF r.assigned THEN Min(computed + 1, MaxComputed) ELSE computed
  /\ UNCHANGED <<kind, data, p, max_count>>

\* reset(self)
reset ==
  /\ LET s == SplitterReset(Self)
     IN /\ kind' = s.kind
        /\ data' = s.data
        /\ p' = s.p
        /\ max_count' = s.max_count
        /\ count' = s.count
        /\ eras' = s.eras
        /\ cv' = s.cv
  /\ signal' = "none"
  /\ run' = <<>>
  /\ computed' = 0

Next == next \/ reset

Spec == Init /\ [][Next]_vars

\* RollSplitter alone, with windows and steps of either sign
InitRoll ==
  \E d \in EraData, fw \in SignedWindows, pw \in SignedWindows, st \in SignedSteps,
     t \in BOOLEAN :
    Built(RollSplitter_init(d, fw, pw, st, t))

SpecRoll == InitRoll /\ [][Next]_vars

\* ------------------------------------------------------------------------
\* Properties
\* ------------------------------------------------------------------------
SingleSplit == {Tournament, Validation, Cheat, Split}

\* the rows of a partition and the eras found on them
RowsOf(view) == Range(view)
ErasOn(view) == {data[i].era : i \in Range(view)}
RegionsOn(view) == {data[i].region : i \in Range(view)}
RowsIn(regions) == {i \in 1..Len(data) : data[i].region \in regions}

\* C1: for every splitter but CheatSplitter, no row of the dataset is in both
\* the fit and the predict partition of a pair returned by next().
C1_RowsDisjoint ==
  kind # Cheat =>
    \A i \in 1..Len(run) : RowsOf(run[i].fit) \cap RowsOf(run[i].pre) = {}

\* a later pair of IgnoreEraCVSplitter with rows on both sides
C1_Witness ==
  /\ kind = IgnoreEraCV
  /\ Len(run) >= 2
  /\ run[2].fit # <<>>
  /\ run[2].pre # <<>>

EraRespecting == {Tournament, Validation, Split, CV, Roll}

\* C2 as stated: for TournamentSplitter, ValidationSplitter, SplitSplitter,
\* CVSplitter and RollSplitter no era is both on a row of the fit partition
\* and on a row of the predict partition of a pair returned by next().
C2_ErasDisjoint_AsStated ==
  kind \in EraRespecting =>
    \A i \in 1..Len(run) : ErasOn(run[i].fit) \cap ErasOn(run[i].pre) = {}

\* the region TournamentSplitter and ValidationSplitter predict on
PredictRegion == IF kind = Tournament THEN "tournament" ELSE "validation"

\* an era found both on a train row and on a row of PredictRegion
SharedEra ==
  \E i \in RowsIn({"train"}), j \in RowsIn({PredictRegion}) : data[i].era = data[j].era

\* C2 as amended: SplitSplitter, CVSplitter and RollSplitter never put an era
\* on both sides of a pair; TournamentSplitter and ValidationSplitter put one
\* on both sides exactly when the dataset has an era both in the train region
\* and in the region they predict on.
C2_ErasDisjoint ==
  /\ kind \in {Split, CV, Roll} =>
       \A i \in 1..Len(run) : ErasOn(run[i].fit) \cap ErasOn(run[i].pre) = {}
  /\ kind \in {Tournament, Validation} =>
       \A i \in 1..Len(run) :
         (ErasOn(run[i].fit) \cap ErasOn(run[i].pre) = {}) <=> ~SharedEra

\* a pair of ValidationSplitter with rows on both sides and no era shared
C2_Witness ==
  /\ kind = Validation
  /\ Len(run) = 1
  /\ run[1].fit # <<>>
  /\ run[1].pre # <<>>
  /\ ~SharedEra

\* C3: a single-split splitter returns one pair per run: the first next() of
\* a fresh or reset splitter returns a pair, every later next() before the
\* next reset() raises StopIteration and returns none.
C3_SingleSplitOnePair ==
  [][(next /\ kind \in SingleSplit) =>
       IF signal = "none"
       THEN signal' = "pair" /\ Len(run') = 1
       ELSE signal' = "StopIteration" /\ run' = run]_vars

\* a single-split splitter that returned its pair and then raised StopIteration
C3_Witness ==
  /\ kind \in SingleSplit
  /\ signal = "StopIteration"
  /\ Len(run) = 1

\* the sorted distinct eras a run of SplitSplitter, CVSplitter or RollSplitter
\* partitions: those of the train rows under train_only, else of all rows
PartitionedEras == UniqueEra(data, TrainOnly(data, p.train_only))

\* C4: CVSplitter with 2 <= kfold <= number of distinct eras returns kfold
\* pairs per run and then raises StopIteration; the predict-era sets of the
\* run are pairwise disjoint and their union is the set of partitioned eras.
C4_KfoldPartition ==
  (kind = CV /\ p.kfold >= 2 /\ p.kfold <= Len(PartitionedEras)) =>
    /\ signal \in {"none", "pair", "StopIteration"}
    /\ Len(run) <= p.kfold
    /\ signal = "StopIteration" => Len(run) = p.kfold
    /\ \A i, j \in 1..Len(run) :
         i # j => Range(run[i].era_pre) \cap Range(run[j].era_pre) = {}
    /\ Len(run) = p.kfold =>
         UNION {Range(run[i].era_pre) : i \in 1..Len(run)} = Range(PartitionedEras)

\* a finished run of three folds over three eras
C4_Witness ==
  /\ kind = CV
  /\ p.kfold = MaxKfold
  /\ Len(PartitionedEras) >= MaxKfold
  /\ Len(run) = p.kfold
  /\ signal = "StopIteration"

\* the eras of E at the 0-based positions lo..hi-1 that E has
EraWindow(E, lo, hi) == SubSeq(E, Max(lo, 0) + 1, Min(hi, Len(E)))

\* C5: the pair RollSplitter returns on iteration i (0-based) has the fit
\* eras at positions [i*step, i*step+fit_window) and the predict eras at
\* [i*step+fit_window, i*step+fit_window+predict_window) of the sorted
\* distinct eras; the first iteration whose predict range ends past the era
\* count raises StopIteration instead of returning a pair.
C5_RollingWindows ==
  kind = Roll =>
    LET E == PartitionedEras
        Start(i) == i * p.step
        Mid(i) == Start(i) + p.fit_window
        End(i) == Mid(i) + p.predict_window
    IN /\ signal \in {"none", "pair", "StopIteration"}
       /\ \A i \in 0..(Len(run) - 1) :
            /\ End(i) <= Len(E)
            /\ run[i + 1].era_fit = EraWindow(E, Start(i), Mid(i))
            /\ run[i + 1].era_pre = EraWindow(E, Mid(i), End(i))
            /\ ErasOn(run[i + 1].fit) = Range(run[i + 1].era_fit)
            /\ ErasOn(run[i + 1].pre) = Range(run[i + 1].era_pre)
       /\ signal = "StopIteration" => End(Len(run)) > Len(E)

\* windows 1/1, step 1 over three eras: two pairs, then StopIteration
C5_Witness ==
  /\ kind = Roll
  /\ p.fit_window = 1 /\ p.predict_window = 1 /\ p.step = 1
  /\ Len(PartitionedEras) = 3
  /\ Len(run) = 2
  /\ run[2].era_fit # run[1].era_fit
  /\ signal = "StopIteration"

\* a freshly constructed splitter of the class, dataset and parameters of s
Fresh(s) ==
  CASE s.kind \in {Tournament, Validation, Cheat} -> Splitter_init(s.kind, s.data)
    [] s.kind = Split ->
         SplitSplitter_init(s.data, s.p.fit_fraction, s.p.seed, s.p.train_only)
    [] s.kind = CV -> CVSplitter_init(s.data, s.p.kfold, s.p.seed, s.p.train_only)
    [] s.kind = IgnoreEraCV ->
         IgnoreEraCVSplitter_init(s.data, s.p.kfold, s.p.seed, s.p.train_only)
    [] s.kind = Roll ->
         RollSplitter_init(s.data, s.p.fit_window, s.p.predict_window, s.p.step,
                           s.p.train_only)

RECURSIVE SameCalls(_, _, _)
\* the next n calls of next() give the same on the objects a and b
SameCalls(a, b, n) ==
  \/ n = 0
  \/ LET ra == SplitterNext(a)
         rb == SplitterNext(b)
     IN ra.out = rb.out /\ SameCalls(ra.obj, rb.obj, n - 1)

\* C6: after construction and after every reset(), from whatever state it
\* was called in, count is 0 and the calls of next() that follow give the
\* pairs and the exceptions a freshly constructed splitter with the same
\* dataset, parameters and seed gives, call for call.
C6_ResetReproduces ==
  signal = "none" => count = 0 /\ SameCalls(Self, Fresh(Self), MaxCount + 1)

\* a CVSplitter reset after its run ended: its fold generator is used up
C6_Witness ==
  /\ kind = CV
  /\ signal = "none"
  /\ cv.some
  /\ cv.val.closed
  /\ p.kfold = 2
  /\ Len(PartitionedEras) >= 2

\* C7: under train_only, every pair SplitSplitter, CVSplitter,
\* IgnoreEraCVSplitter and RollSplitter return holds train rows only.
C7_TrainRowsOnly ==
  (kind \in {Split, CV, IgnoreEraCV, Roll} /\ p.train_only) =>
    \A i \in 1..Len(run) :
      RegionsOn(run[i].fit) \cup RegionsOn(run[i].pre) \subseteq {"train"}

\* parameters the specification calls invalid
InvalidConfig ==
  \/ kind = Roll /\ (p.fit_window <= 0 \/ p.predict_window <= 0)
  \/ kind \in {CV, IgnoreEraCV} /\ p.kfold < 2
  \/ kind = Split /\ ~(0 < p.fit_fraction /\ p.fit_fraction < FracDen)

\* C8: construction with invalid parameters is rejected: no splitter object
\* holds a non-positive window, a kfold below 2 or a fit_fraction outside
\* the open interval (0, 1).
C8_InvalidRejected == ~InvalidConfig

C10_FractionRounding ==
  (kind = Split /\ 0 < p.fit_fraction /\ p.fit_fraction < FracDen) =>
    LET n == Len(PartitionedEras)
        num == 2 * p.fit_fraction * n + FracDen
        den == 2 * FracDen
    IN \A i \in 1..Len(run) :
         LET fit == Range(run[i].era_fit)
             pre == Range(run[i].era_pre)
             m == Cardinality(fit)
         IN /\ fit \cap pre = {}
            /\ fit \cup pre = Range(PartitionedEras)
            /\ ErasOn(run[i].fit) = fit
            /\ ErasOn(run[i].pre) = pre
            /\ den * m <= num
            /\ num < den * (m + 1)

\* fit_fraction 1/2 over three eras: 1.5 rounds up to two fit eras
C10_Witness ==
  /\ kind = Split
  /\ 2 * p.fit_fraction = FracDen
  /\ Len(PartitionedEras) = 3
  /\ Len(run) = 1
  /\ Len(run[1].era_fit) = 2
  /\ p.seed # 0


\* the rows a run of IgnoreEraCVSplitter partitions
PartitionedRows == TrainOnly(data, p.train_only)

\* a kfold StratifiedKFold accepts for the labels of the partitioned rows
StratifiableKfold ==
  LET ys == LabelsOf(data, PartitionedRows)
  IN /\ p.kfold >= 2
     /\ \E y \in Range(ys) : Len(Members(ys, y)) >= p.kfold

\* C11: IgnoreEraCVSplitter with a kfold StratifiedKFold accepts returns kfold
\* pairs per run and then raises StopIteration; on every iteration fit and
\* predict are disjoint and together are exactly the partitioned rows (the
\* train rows under train_only, else all rows); the predict row sets of the
\* run are pairwise disjoint and cover the partitioned rows.
C11_StratifiedPartition ==
  (kind = IgnoreEraCV /\ StratifiableKfold) =>
    /\ signal \in {"none", "pair", "StopIteration"}
    /\ Len(run) <= p.kfold
    /\ signal = "StopIteration" => Len(run) = p.kfold
    /\ \A i \in 1..Len(run) :
         /\ RowsOf(run[i].fit) \cup RowsOf(run[i].pre) = RowsOf(PartitionedRows)
         /\ RowsOf(run[i].fit) \cap RowsOf(run[i].pre) = {}
    /\ \A i, j \in 1..Len(run) :
         i # j => RowsOf(run[i].pre) \cap RowsOf(run[j].pre) = {}
    /\ Len(run) = p.kfold =>
         UNION {RowsOf(run[i].pre) : i \in 1..Len(run)} = RowsOf(PartitionedRows)

\* the splitters whose max_count is finite
FiniteMax == {Tournament, Validation, Cheat, Split, CV, IgnoreEraCV}

\* a kfold the fold generator of the splitter accepts
FoldsAccepted ==
  /\ kind = CV => p.kfold >= 2 /\ p.kfold <= Len(PartitionedEras)
  /\ kind = IgnoreEraCV => StratifiableKfold

\* C12: for a splitter with a finite max_count (and a kfold its fold generator
\* accepts), a call of next() raises StopIteration and leaves count alone if
\* count > max_count at the call, and otherwise returns a pair and increments
\* count.
C12_ExhaustedIffPastMax ==
  [][(next /\ kind \in FiniteMax /\ FoldsAccepted) =>
       IF count > max_count
       THEN signal' = "StopIteration" /\ count' = count
       ELSE signal' = "pair" /\ count' = count + 1]_vars

\* C13 as stated: reset() leaves count = 0 and the cached attributes (eras,
\* cv) cleared, with the parameters, max_count and the dataset unchanged.
C13_ResetClears_AsStated ==
  [][signal' = "none" =>
       /\ count' = 0
       /\ eras' = None
       /\ cv' = None
       /\ UNCHANGED <<kind, data, p, max_count>>]_vars

\* C13: reset() sets count to 0 and changes nothing else of the object: the
\* parameters, max_count, the dataset and the cached attributes (eras, cv)
\* are as they were before the call.
C13_ResetKeepsCache ==
  [][signal' = "none" =>
       /\ count' = 0
       /\ UNCHANGED <<kind, data, p, max_count, eras, cv>>]_vars

\* after a reset, a CVSplitter that still holds the eras and the fold
\* generator of the run before
C13_Witness ==
  /\ kind = CV
  /\ signal = "none"
  /\ count = 0
  /\ eras.some
  /\ cv.some

\* the splitters that keep cached attributes
Caching == {CV, IgnoreEraCV, Roll}

\* C14 as stated: in a run of CVSplitter, IgnoreEraCVSplitter or RollSplitter
\* with valid parameters in which next() has been called, the cached
\* attributes have been computed exactly once.
C14_ComputedOnce_AsStated ==
  (kind \in Caching /\ ~InvalidConfig /\ signal # "none") => computed = 1

\* C14: the cached attributes are None after construction; a call of next()
\* computes them only when count = 0 at the call; a call made with count > 0
\* leaves eras alone and goes on with the fold generator it finds; and in a
\* run of CVSplitter, IgnoreEraCVSplitter or RollSplitter that has returned a
\* pair they have been computed exactly once. (A run
\* whose calls all raise at count = 0 computes them on every call.)
C14_LazyCache ==
  /\ eras = None /\ cv = None /\ computed = 0
  /\ [][/\ computed' > computed => count = 0
        /\ (count > 0 /\ signal' # "none") =>
             /\ computed' = computed
             /\ eras' = eras
             /\ cv.some => /\ cv'.some
                           /\ cv'.val.n = cv.val.n
                           /\ cv'.val.test = cv.val.test
        /\ (kind \in Caching /\ run' # <<>>) => computed' = 1]_vars

\* a CVSplitter that has returned two pairs in a run after a reset, from
\* folds computed once in this run
C14_Witness ==
  /\ kind = CV
  /\ Len(run) = 2
  /\ computed = 1
  /\ count = 2

\* the sorted distinct eras of the dataset
DatasetEras == UniqueEra(data, AllRows(data))

\* C15: a run of RollSplitter with positive fit_window and predict_window,
\* whatever its step, returns no more pairs than the dataset has distinct
\* eras.
C15_RollBounded ==
  (kind = Roll /\ p.fit_window > 0 /\ p.predict_window > 0) =>
    Len(run) <= Len(DatasetEras)

\* C16: for RollSplitter with windows and step of either sign, no call of
\* next() raises RuntimeError, and no era is both in the fit eras and in the
\* predict eras of a pair it returns.
C16_NoDoubleAssignment ==
  kind = Roll =>
    /\ signal # "RuntimeError"
    /\ \A i \in 1..Len(run) : Range(run[i].era_fit) \cap Range(run[i].era_pre) = {}

\* a run with a negative step whose second pair has a predict era
C16_Witness ==
  /\ kind = Roll
  /\ p.step < 0
  /\ Len(run) >= 2
  /\ run[2].era_pre # <<>>

\* C17: count equals the number of pairs returned since construction or the
\* last reset(); a call of next() that returns a pair increases count by 1,
\* reset() sets it to 0, and a call of next() that raises leaves it as it was.
C17_CountIsPairs ==
  /\ count = Len(run)
  /\ [][/\ count' = Len(run')
        /\ signal' = "pair" => count' = count + 1
        /\ signal' = "none" => count' = 0
        /\ signal' \notin {"pair", "none"} => count' = count]_vars

\* a RollSplitter run that has returned two pairs and then met the end of
\* the eras
C17_Witness ==
  /\ kind = Roll
  /\ signal = "StopIteration"
  /\ count = 2
  /\ Len(run) = 2

\* C18: once a call of next() has raised StopIteration, every call of next()
\* made before a reset() raises StopIteration too and returns no pair.
C18_ExhaustionAbsorbing ==
  [][(signal = "StopIteration" /\ next) =>
       signal' = "StopIteration" /\ run' = run]_vars

\* an IgnoreEraCVSplitter whose fold generator is used up after kfold pairs
C18_Witness ==
  /\ kind = IgnoreEraCV
  /\ signal = "StopIteration"
  /\ Len(run) = p.kfold
  /\ cv.some
  /\ cv.val.closed

====
